---- MODULE Spec2Model ----
(***************************************************************************)
(* Model of package null: the nullable wrappers JSON (a nullable []byte)   *)
(* and Time (a nullable time.Time), and the package-level byte slice       *)
(* NullBytes they share.                                                   *)
(*                                                                         *)
(* A byte is a one-character string.  A []byte argument or result is a     *)
(* record that keeps nil apart from the empty non-nil slice.  The slice    *)
(* held in JSON.JSON additionally records whether it points into the       *)
(* backing array of NullBytes, because UnmarshalJSON stores NullBytes      *)
(* itself and UnmarshalText appends into JSON.JSON[0:0].                   *)
(* A time.Time is an instant 0..MaxTime, 0 being the zero value            *)
(* time.Time{}; its text form is three bytes and its JSON form five.       *)
(***************************************************************************)
EXTENDS Integers, Sequences, FiniteSets, TLC

VARIABLES j, t, NullBytes, last

vars == <<j, t, NullBytes, last>>

\* Largest instant of the model (0 is time.Time{}).
MaxTime == 2

Times == 0 .. MaxTime

\* ------------------------------------------------------------------ values

\* Arguments and results of the calls: a nil []byte / nil interface ("nil"),
\* a non-nil []byte ("bytes"), a time.Time ("time"), a value of any other
\* dynamic type ("other"), a bool ("flag"), nothing ("none").
Arg(shape, bytes, time, flag) ==
    [shape |-> shape, bytes |-> bytes, time |-> time, flag |-> flag]

NoArg == Arg("none", <<>>, 0, FALSE)
NilArg == Arg("nil", <<>>, 0, FALSE)
BytesArg(b) == Arg("bytes", b, 0, FALSE)
TimeArg(x) == Arg("time", <<>>, x, FALSE)
OtherArg == Arg("other", <<>>, 0, FALSE)
FlagArg(f) == Arg("flag", <<>>, 0, f)

\* The bytes "null".
NullToken == <<"n", "u", "l", "l">>

\* The slice stored in JSON.JSON.
NilSlice == [ref |-> "nil", bytes |-> <<>>, len |-> 0]
OwnSlice(b) == [ref |-> "own", bytes |-> b, len |-> Len(b)]
SharedSlice(n) == [ref |-> "NullBytes", bytes |-> <<>>, len |-> n]

\* The slice a []byte argument denotes (the argument's array is not NullBytes').
SliceOf(a) == IF a.shape = "bytes" THEN OwnSlice(a.bytes) ELSE NilSlice

\* The bytes a slice shows, given the contents nb of NullBytes' array.
SliceBytes(s, nb) == IF s.ref = "NullBytes" THEN SubSeq(nb, 1, s.len) ELSE s.bytes

\* A slice as a []byte value: nil, or its bytes.
SliceArg(s, nb) == IF s.ref = "nil" THEN NilArg ELSE BytesArg(SliceBytes(s, nb))

\* cap(NullBytes): the array of []byte("null") holds its four bytes.
NullCap == Len(NullToken)

\* The result of a call: the receiver after it, NullBytes' array after it,
\* whether it returned an error, and the value it returned.
Ret(w, nb, err, out) == [w |-> w, nb |-> nb, err |-> err, out |-> out]

\* ------------------------------------------------------------- JSON wrapper

NewJSON(b, valid, set) == [JSON |-> SliceOf(b), Valid |-> valid, Set |-> set]

JSONFrom(b) == NewJSON(b, b.shape # "nil", TRUE)

JSONFromPtr(b) ==
    IF b.shape = "nil" THEN NewJSON(NilArg, FALSE, TRUE) ELSE NewJSON(b, TRUE, TRUE)

JSONIsSet(w) == w.Set

JSONIsZero(w) == ~w.Valid

\* UnmarshalJSON without its copy(j.JSON, data): the payload is len(data) zero
\* bytes.
UnmarshalJSONNoCopy(w, nb, data) ==
    LET w1 == [w EXCEPT !.Set = TRUE] IN
    IF data.shape = "nil" THEN Ret(w1, nb, TRUE, NoArg)
    ELSE IF data.bytes = nb
         THEN Ret([w1 EXCEPT !.JSON = SharedSlice(Len(nb)), !.Valid = FALSE],
                  nb, FALSE, NoArg)
         ELSE Ret([w1 EXCEPT !.Valid = TRUE,
                             !.JSON = OwnSlice([i \in 1 .. Len(data.bytes) |-> "NUL"])],
                  nb, FALSE, NoArg)

JSONUnmarshalJSON(w, nb, data) ==
    LET w1 == [w EXCEPT !.Set = TRUE] IN
    IF data.shape = "nil" THEN Ret(w1, nb, TRUE, NoArg)
    ELSE IF data.bytes = nb
         THEN Ret([w1 EXCEPT !.JSON = SharedSlice(Len(nb)), !.Valid = FALSE],
                  nb, FALSE, NoArg)
         ELSE Ret([w1 EXCEPT !.Valid = TRUE, !.JSON = OwnSlice(data.bytes)],
                  nb, FALSE, NoArg)

\* append(j.JSON[0:0], text...): writes into the array j.JSON points into when
\* the text fits its capacity, and then that array is NullBytes' own whenever
\* j.JSON is NullBytes.
JSONUnmarshalText(w, nb, text) ==
    LET w1 == [w EXCEPT !.Set = TRUE] IN
    IF text.shape = "nil" \/ Len(text.bytes) = 0
    THEN Ret([w1 EXCEPT !.JSON = NilSlice, !.Valid = FALSE], nb, FALSE, NoArg)
    ELSE IF w.JSON.ref = "NullBytes" /\ Len(text.bytes) <= NullCap
         THEN Ret([w1 EXCEPT !.JSON = SharedSlice(Len(text.bytes)), !.Valid = TRUE],
                  text.bytes \o SubSeq(nb, Len(text.bytes) + 1, Len(nb)),
                  FALSE, NoArg)
         ELSE Ret([w1 EXCEPT !.JSON = OwnSlice(text.bytes), !.Valid = TRUE],
                  nb, FALSE, NoArg)

JSONMarshalJSON(w, nb) ==
    IF Len(SliceBytes(w.JSON, nb)) = 0 \/ w.JSON.ref = "nil"
    THEN Ret(w, nb, FALSE, BytesArg(nb))
    ELSE Ret(w, nb, FALSE, SliceArg(w.JSON, nb))

JSONMarshalText(w, nb) ==
    IF ~w.Valid THEN Ret(w, nb, FALSE, NilArg)
    ELSE Ret(w, nb, FALSE, SliceArg(w.JSON, nb))

JSONSetValid(w, nb, n) ==
    Ret([w EXCEPT !.JSON = SliceOf(n), !.Valid = TRUE, !.Set = TRUE], nb, FALSE, NoArg)

\* The driver.Value holding j.JSON: a nil []byte in an interface is not the nil
\* interface.
JSONValue(w, nb) ==
    IF ~w.Valid THEN Ret(w, nb, FALSE, NilArg)
    ELSE IF w.JSON.ref = "nil" THEN Ret(w, nb, FALSE, Arg("nilslice", <<>>, 0, FALSE))
    ELSE Ret(w, nb, FALSE, SliceArg(w.JSON, nb))

\* convert.ConvertAssign(&j.JSON, value) for a non-nil value: a byte sequence or
\* a text is copied into a fresh slice; any other dynamic shape is refused and
\* the destination is left alone.
ConvertAssign(dest, value) ==
    IF value.shape = "bytes"
    THEN [slice |-> OwnSlice(value.bytes), err |-> FALSE]
    ELSE [slice |-> dest, err |-> TRUE]

JSONScan(w, nb, value) ==
    IF value.shape = "nil"
    THEN Ret([w EXCEPT !.JSON = NilSlice, !.Valid = FALSE, !.Set = FALSE],
             nb, FALSE, NoArg)
    ELSE LET c == ConvertAssign(w.JSON, value) IN
         Ret([w EXCEPT !.Valid = TRUE, !.Set = TRUE, !.JSON = c.slice],
             nb, c.err, NoArg)

\* json.Marshal(obj) of the standard library, for four shapes of obj: nil, a
\* number, a map, and a channel (which json.Marshal refuses).
JSONEncode(obj) ==
    CASE obj = "nil" -> [bytes |-> NullToken, err |-> FALSE]
      [] obj = "num" -> [bytes |-> <<"7">>, err |-> FALSE]
      [] obj = "map" -> [bytes |-> <<"{", "a", ":", "1", "}">>, err |-> FALSE]
      [] OTHER -> [bytes |-> <<>>, err |-> TRUE]

Objs == {"nil", "num", "map", "chan"}

\* json.Unmarshal(res, j) hands the whole of res to j.UnmarshalJSON.
JSONMarshal(w, nb, obj) ==
    LET res == JSONEncode(obj) IN
    IF res.err THEN Ret(w, nb, TRUE, NoArg)
    ELSE JSONUnmarshalJSON(w, nb, BytesArg(res.bytes))

\* The letters randomize.Str(nextInt, 1) draws from.
RandLetters == {"a", "b"}

JSONRandomize(w, nb, c, shouldBeNull) ==
    Ret([w EXCEPT !.JSON = OwnSlice(<<"Q", c, "Q">>), !.Valid = TRUE], nb, FALSE, NoArg)

\* ------------------------------------------------------------- Time wrapper

Digit(n) == <<"0", "1", "2", "3", "4", "5", "6", "7", "8", "9">>[n + 1]

\* time.Time.MarshalText: the text form of an instant.
TimeText(x) == <<Digit(x), "T", "Z">>

\* time.Time.MarshalJSON: the text form between double quotes ("Q"), longer
\* than NullBytes as every RFC 3339 text is.  The instants of the model are
\* within the years MarshalJSON accepts; an instant stands for itself in any
\* location.
TimeJSON(x) == <<"Q">> \o TimeText(x) \o <<"Q">>

\* time.Time.UnmarshalText on a Time holding cur: the parsed instant, or the
\* zero Time and an error (the parser's result is assigned either way).
StdUnmarshalText(cur, text) ==
    IF \E x \in Times : text = TimeText(x)
    THEN [time |-> CHOOSE x \in Times : text = TimeText(x), err |-> FALSE]
    ELSE [time |-> 0, err |-> TRUE]

\* time.Time.UnmarshalJSON on a Time holding cur: the bytes "null" are
\* accepted and change nothing; anything not between quotes is refused.
StdUnmarshalJSON(cur, data) ==
    IF data = NullToken THEN [time |-> cur, err |-> FALSE]
    ELSE IF Len(data) < 2 \/ data[1] # "Q" \/ data[Len(data)] # "Q"
         THEN [time |-> cur, err |-> TRUE]
         ELSE StdUnmarshalText(cur, SubSeq(data, 2, Len(data) - 1))

NewTime(x, valid, set) == [Time |-> x, Valid |-> valid, set |-> set]

TimeFrom(x) == NewTime(x, TRUE, TRUE)

TimeFromPtr(p) ==
    IF p.shape = "nil" THEN NewTime(0, FALSE, TRUE) ELSE NewTime(p.time, TRUE, TRUE)

TimeIsSet(w) == w.set

TimeIsZero(w) == ~w.Valid

TimeMarshalJSON(w, nb) ==
    IF ~w.Valid THEN Ret(w, nb, FALSE, BytesArg(nb))
    ELSE Ret(w, nb, FALSE, BytesArg(TimeJSON(w.Time)))

TimeUnmarshalJSON(w, nb, data) ==
    LET w1 == [w EXCEPT !.set = TRUE] IN
    IF data.shape = "bytes" /\ data.bytes = nb
    THEN Ret([w1 EXCEPT !.Valid = FALSE, !.Time = 0], nb, FALSE, NoArg)
    ELSE LET r == StdUnmarshalJSON(w.Time, data.bytes) IN
         IF r.err THEN Ret([w1 EXCEPT !.Time = r.time], nb, TRUE, NoArg)
         ELSE Ret([w1 EXCEPT !.Time = r.time, !.Valid = TRUE], nb, FALSE, NoArg)

TimeMarshalText(w, nb) ==
    IF ~w.Valid THEN Ret(w, nb, FALSE, BytesArg(nb))
    ELSE Ret(w, nb, FALSE, BytesArg(TimeText(w.Time)))

TimeUnmarshalText(w, nb, text) ==
    LET w1 == [w EXCEPT !.set = TRUE] IN
    IF text.shape = "nil" \/ Len(text.bytes) = 0
    THEN Ret([w1 EXCEPT !.Valid = FALSE], nb, FALSE, NoArg)
    ELSE LET r == StdUnmarshalText(w.Time, text.bytes) IN
         IF r.err THEN Ret([w1 EXCEPT !.Time = r.time], nb, TRUE, NoArg)
         ELSE Ret([w1 EXCEPT !.Time = r.time, !.Valid = TRUE], nb, FALSE, NoArg)

TimeSetValid(w, nb, v) ==
    Ret([w EXCEPT !.Time = v, !.Valid = TRUE, !.set = TRUE], nb, FALSE, NoArg)

\* Scan without its t.Time = x: a scanned instant only marks the Time valid.
ScanKeepsOldTime(w, nb, value) ==
    LET w1 == [w EXCEPT !.set = TRUE] IN
    CASE value.shape = "time" -> Ret([w1 EXCEPT !.Valid = TRUE], nb, FALSE, NoArg)
      [] value.shape = "nil" -> Ret([w1 EXCEPT !.Valid = FALSE], nb, FALSE, NoArg)
      [] OTHER -> Ret([w1 EXCEPT !.Valid = FALSE], nb, TRUE, NoArg)

TimeScan(w, nb, value) ==
    LET w1 == [w EXCEPT !.set = TRUE] IN
    CASE value.shape = "time" ->
           Ret([w1 EXCEPT !.Time = value.time, !.Valid = TRUE], nb, FALSE, NoArg)
      [] value.shape = "nil" ->
           Ret([w1 EXCEPT !.Valid = FALSE], nb, FALSE, NoArg)
      [] OTHER ->
           Ret([w1 EXCEPT !.Valid = FALSE], nb, TRUE, NoArg)

TimeValue(w, nb) ==
    IF ~w.Valid THEN Ret(w, nb, FALSE, NilArg)
    ELSE Ret(w, nb, FALSE, TimeArg(w.Time))

\* randomize.Date(nextInt) yields a date that is not the zero Time.
TimeRandomize(w, nb, d, shouldBeNull) ==
    IF shouldBeNull THEN Ret([w EXCEPT !.Time = 0, !.Valid = FALSE], nb, FALSE, NoArg)
    ELSE Ret([w EXCEPT !.Time = d, !.Valid = TRUE], nb, FALSE, NoArg)

\* ------------------------------------------------------------------ inputs

\* Byte slices handed to the JSON wrapper: nil, empty, the bytes "null", a
\* one-byte document, four bytes that are not "null", and a document longer
\* than NullBytes.
JSONByteArgs ==
    {NilArg} \cup {BytesArg(b) : b \in
        {<<>>, NullToken, <<"7">>, <<"7", "u", "l", "l">>, <<"{", "a", ":", "1", "}">>}}

\* Byte slices handed to the Time wrapper: nil, empty, the bytes "null", an
\* unquoted text and a quoted text that are no time, and the JSON and text
\* forms of every instant.
TimeByteArgs ==
    {NilArg} \cup {BytesArg(b) : b \in {<<>>, NullToken, <<"7">>, <<"Q", "x", "Q">>}}
        \cup {BytesArg(TimeJSON(x)) : x \in Times}
        \cup {BytesArg(TimeText(x)) : x \in Times}

\* Values a store driver hands to JSON.Scan: nil, byte sequences, and a value
\* of a dynamic type the coercion refuses.
JSONScanArgs == {NilArg, OtherArg} \cup {BytesArg(b) : b \in {<<>>, <<"7">>}}

\* Values a store driver hands to Time.Scan: nil, instants, and values of other
\* dynamic types (a byte sequence, anything else).
TimeScanArgs == {NilArg, OtherArg, BytesArg(<<"7">>)} \cup {TimeArg(x) : x \in Times}

\* *time.Time arguments: nil or a pointer to an instant.
TimePtrs == {NilArg} \cup {TimeArg(x) : x \in Times}

\* ------------------------------------------------------------ state machine

Call(kind, op, in, pre, r) ==
    [kind |-> kind, op |-> op, in |-> in, err |-> r.err, out |-> r.out,
     preValid |-> pre.Valid]

Init ==
    /\ j = NewJSON(NilArg, FALSE, FALSE)
    /\ t = NewTime(0, FALSE, FALSE)
    /\ NullBytes = NullToken
    /\ last = Call("none", "init", NoArg, [Valid |-> FALSE], Ret(0, 0, FALSE, NoArg))

\* Each action is one call on j or on t: the receiver and NullBytes become what
\* the call leaves, last records the call, the other wrapper is untouched.
\* The Assign actions are j = NewJSON(...), t = TimeFrom(...) and the like.

AssignNewJSON ==
    \E b \in JSONByteArgs, valid \in BOOLEAN, set \in BOOLEAN :
        LET r == Ret(NewJSON(b, valid, set), NullBytes, FALSE, NoArg) IN
        /\ j' = r.w
        /\ NullBytes' = r.nb
        /\ last' = Call("JSON", "New", b, j, r)
        /\ UNCHANGED t

AssignJSONFrom ==
    \E b \in JSONByteArgs :
        LET r == Ret(JSONFrom(b), NullBytes, FALSE, NoArg) IN
        /\ j' = r.w
        /\ NullBytes' = r.nb
        /\ last' = Call("JSON", "From", b, j, r)
        /\ UNCHANGED t

AssignJSONFromPtr ==
    \E b \in JSONByteArgs :
        LET r == Ret(JSONFromPtr(b), NullBytes, FALSE, NoArg) IN
        /\ j' = r.w
        /\ NullBytes' = r.nb
        /\ last' = Call("JSON", "FromPtr", b, j, r)
        /\ UNCHANGED t

CallJSONUnmarshalJSON ==
    \E data \in JSONByteArgs :
        LET r == JSONUnmarshalJSON(j, NullBytes, data) IN
        /\ j' = r.w
        /\ NullBytes' = r.nb
        /\ last' = Call("JSON", "UnmarshalJSON", data, j, r)
        /\ UNCHANGED t

CallJSONUnmarshalText ==
    \E text \in JSONByteArgs :
        LET r == JSONUnmarshalText(j, NullBytes, text) IN
        /\ j' = r.w
        /\ NullBytes' = r.nb
        /\ last' = Call("JSON", "UnmarshalText", text, j, r)
        /\ UNCHANGED t

CallJSONMarshal ==
    \E obj \in Objs :
        LET r == JSONMarshal(j, NullBytes, obj) IN
        /\ j' = r.w
        /\ NullBytes' = r.nb
        /\ last' = Call("JSON", "Marshal", NoArg, j, r)
        /\ UNCHANGED t

CallJSONMarshalJSON ==
    LET r == JSONMarshalJSON(j, NullBytes) IN
    /\ j' = r.w
    /\ NullBytes' = r.nb
    /\ last' = Call("JSON", "MarshalJSON", NoArg, j, r)
    /\ UNCHANGED t

CallJSONMarshalText ==
    LET r == JSONMarshalText(j, NullBytes) IN
    /\ j' = r.w
    /\ NullBytes' = r.nb
    /\ last' = Call("JSON", "MarshalText", NoArg, j, r)
    /\ UNCHANGED t

CallJSONSetValid ==
    \E n \in JSONByteArgs :
        LET r == JSONSetValid(j, NullBytes, n) IN
        /\ j' = r.w
        /\ NullBytes' = r.nb
        /\ last' = Call("JSON", "SetValid", n, j, r)
        /\ UNCHANGED t

CallJSONScan ==
    \E value \in JSONScanArgs :
        LET r == JSONScan(j, NullBytes, value) IN
        /\ j' = r.w
        /\ NullBytes' = r.nb
        /\ last' = Call("JSON", "Scan", value, j, r)
        /\ UNCHANGED t

CallJSONValue ==
    LET r == JSONValue(j, NullBytes) IN
    /\ j' = r.w
    /\ NullBytes' = r.nb
    /\ last' = Call("JSON", "Value", NoArg, j, r)
    /\ UNCHANGED t

CallJSONRandomize ==
    \E c \in RandLetters, shouldBeNull \in BOOLEAN :
        LET r == JSONRandomize(j, NullBytes, c, shouldBeNull) IN
        /\ j' = r.w
        /\ NullBytes' = r.nb
        /\ last' = Call("JSON", "Randomize", FlagArg(shouldBeNull), j, r)
        /\ UNCHANGED t

AssignNewTime ==
    \E x \in Times, valid \in BOOLEAN, set \in BOOLEAN :
        LET r == Ret(NewTime(x, valid, set), NullBytes, FALSE, NoArg) IN
        /\ t' = r.w
        /\ NullBytes' = r.nb
        /\ last' = Call("Time", "New", TimeArg(x), t, r)
        /\ UNCHANGED j

AssignTimeFrom ==
    \E x \in Times :
        LET r == Ret(TimeFrom(x), NullBytes, FALSE, NoArg) IN
        /\ t' = r.w
        /\ NullBytes' = r.nb
        /\ last' = Call("Time", "From", TimeArg(x), t, r)
        /\ UNCHANGED j

AssignTimeFromPtr ==
    \E p \in TimePtrs :
        LET r == Ret(TimeFromPtr(p), NullBytes, FALSE, NoArg) IN
        /\ t' = r.w
        /\ NullBytes' = r.nb
        /\ last' = Call("Time", "FromPtr", p, t, r)
        /\ UNCHANGED j

CallTimeUnmarshalJSON ==
    \E data \in TimeByteArgs :
        LET r == TimeUnmarshalJSON(t, NullBytes, data) IN
        /\ t' = r.w
        /\ NullBytes' = r.nb
        /\ last' = Call("Time", "UnmarshalJSON", data, t, r)
        /\ UNCHANGED j

CallTimeUnmarshalText ==
    \E text \in TimeByteArgs :
        LET r == TimeUnmarshalText(t, NullBytes, text) IN
        /\ t' = r.w
        /\ NullBytes' = r.nb
        /\ last' = Call("Time", "UnmarshalText", text, t, r)
        /\ UNCHANGED j

CallTimeMarshalJSON ==
    LET r == TimeMarshalJSON(t, NullBytes) IN
    /\ t' = r.w
    /\ NullBytes' = r.nb
    /\ last' = Call("Time", "MarshalJSON", NoArg, t, r)
    /\ UNCHANGED j

CallTimeMarshalText ==
    LET r == TimeMarshalText(t, NullBytes) IN
    /\ t' = r.w
    /\ NullBytes' = r.nb
    /\ last' = Call("Time", "MarshalText", NoArg, t, r)
    /\ UNCHANGED j

CallTimeSetValid ==
    \E v \in Times :
        LET r == TimeSetValid(t, NullBytes, v) IN
        /\ t' = r.w
        /\ NullBytes' = r.nb
        /\ last' = Call("Time", "SetValid", TimeArg(v), t, r)
        /\ UNCHANGED j

CallTimeScan ==
    \E value \in TimeScanArgs :
        LET r == TimeScan(t, NullBytes, value) IN
        /\ t' = r.w
        /\ NullBytes' = r.nb
        /\ last' = Call("Time", "Scan", value, t, r)
        /\ UNCHANGED j

CallTimeValue ==
    LET r == TimeValue(t, NullBytes) IN
    /\ t' = r.w
    /\ NullBytes' = r.nb
    /\ last' = Call("Time", "Value", NoArg, t, r)
    /\ UNCHANGED j

CallTimeRandomize ==
    \E d \in Times \ {0}, shouldBeNull \in BOOLEAN :
        LET r == TimeRandomize(t, NullBytes, d, shouldBeNull) IN
        /\ t' = r.w
        /\ NullBytes' = r.nb
        /\ last' = Call("Time", "Randomize", FlagArg(shouldBeNull), t, r)
        /\ UNCHANGED j

Next ==
    \/ CallTimeRandomize
    \/ CallJSONRandomize
    \/ CallTimeScan
    \/ AssignNewJSON
    \/ AssignJSONFrom
    \/ AssignJSONFromPtr
    \/ CallJSONUnmarshalJSON
    \/ CallJSONUnmarshalText
    \/ CallJSONMarshal
    \/ CallJSONMarshalJSON
    \/ CallJSONMarshalText
    \/ CallJSONSetValid
    \/ CallJSONScan
    \/ CallJSONValue
    \/ AssignNewTime
    \/ AssignTimeFrom
    \/ AssignTimeFromPtr
    \/ CallTimeUnmarshalJSON
    \/ CallTimeUnmarshalText
    \/ CallTimeMarshalJSON
    \/ CallTimeMarshalText
    \/ CallTimeSetValid
    \/ CallTimeValue

Spec == Init /\ [][Next]_vars

\* ------------------------------------------------------------------ claims

\* The wrapper the last call was made on, read through both kinds' fields.
LastValid == IF last.kind = "JSON" THEN j.Valid ELSE t.Valid

LastSet == IF last.kind = "JSON" THEN JSONIsSet(j) ELSE TimeIsSet(t)

LastIsZero == IF last.kind = "JSON" THEN JSONIsZero(j) ELSE TimeIsZero(t)

\* What MarshalJSON and Value return for the wrapper the last call was made on.
LastMarshalJSON ==
    IF last.kind = "JSON" THEN JSONMarshalJSON(j, NullBytes)
    ELSE TimeMarshalJSON(t, NullBytes)

LastValue ==
    IF last.kind = "JSON" THEN JSONValue(j, NullBytes) ELSE TimeValue(t, NullBytes)

\* The stored value is the kind's zero value: the zero Time, no bytes.
LastValueZero ==
    IF last.kind = "JSON" THEN Len(SliceBytes(j.JSON, NullBytes)) = 0 ELSE t.Time = 0

IsCall == last.kind \in {"JSON", "Time"}

\* C1: in every reachable state of either wrapper, Valid implies set.
C1_ValidImpliesSet == (j.Valid => JSONIsSet(j)) /\ (t.Valid => TimeIsSet(t))

\* C2: after UnmarshalJSON, UnmarshalText or Scan returns, with or without an
\* error and whatever the input, IsSet() is true.
C2_DecodeMarksSet ==
    (IsCall /\ last.op \in {"UnmarshalJSON", "UnmarshalText", "Scan"}) => LastSet

\* C3: when Scan returns an error, Valid after the call equals Valid before it.
C3_FailedScanKeepsValid ==
    (IsCall /\ last.op = "Scan" /\ last.err) => (LastValid = last.preValid)

\* C4: MarshalJSON returns exactly the bytes "null" whenever Valid is false, and
\* the encoding of the stored value when Valid is true (and, for JSON, the
\* payload is not empty).
C4_MarshalNullWhenInvalid ==
    (IsCall /\ last.op = "MarshalJSON") =>
        /\ ~last.err
        /\ ~LastValid => last.out = BytesArg(NullToken)
        /\ (last.kind = "JSON" /\ j.Valid /\ ~LastValueZero)
               => last.out = BytesArg(SliceBytes(j.JSON, NullBytes))
        /\ (last.kind = "Time" /\ t.Valid) => last.out = BytesArg(TimeJSON(t.Time))

\* j has just decoded, with UnmarshalJSON, what MarshalJSON returns for
\* JSONFrom(v) (UnmarshalJSON leaves NullBytes as it found it).
DecodedJSONFrom(v) ==
    /\ last.kind = "JSON" /\ last.op = "UnmarshalJSON"
    /\ last.in = JSONMarshalJSON(JSONFrom(v), NullBytes).out

\* j equals JSONFrom(v) in (JSON, Valid), and the decoding succeeded.
RoundTripJSON(v) ==
    /\ ~last.err
    /\ j.Valid = JSONFrom(v).Valid
    /\ SliceArg(j.JSON, NullBytes) = SliceArg(JSONFrom(v).JSON, NullBytes)

\* t has just decoded, with UnmarshalJSON, what MarshalJSON returns for TimeFrom(x).
DecodedTimeFrom(x) ==
    /\ last.kind = "Time" /\ last.op = "UnmarshalJSON"
    /\ last.in = TimeMarshalJSON(TimeFrom(x), NullBytes).out

\* t equals TimeFrom(x) in (Time, Valid), and the decoding succeeded.
RoundTripTime(x) ==
    /\ ~last.err
    /\ t.Valid = TimeFrom(x).Valid
    /\ t.Time = TimeFrom(x).Time

C6_NullTokenFixed ==
    /\ NullBytes = NullToken
    /\ TimeMarshalJSON(NewTime(0, FALSE, TRUE), NullBytes).out = BytesArg(NullToken)
    /\ JSONMarshalJSON(NewJSON(NilArg, FALSE, TRUE), NullBytes).out = BytesArg(NullToken)
    /\ ~JSONUnmarshalJSON(j, NullBytes, BytesArg(NullToken)).w.Valid
    /\ ~TimeUnmarshalJSON(t, NullBytes, BytesArg(NullToken)).w.Valid

\* C7: a zero-initialized wrapper has IsSet() false; after UnmarshalJSON of the
\* bytes "null", from any prior state, the call has succeeded, Valid is false,
\* IsSet() and IsZero() are true, and MarshalJSON returns exactly "null".
C7_NullRoundTrip ==
    /\ last.op = "init" => (~JSONIsSet(j) /\ ~TimeIsSet(t))
    /\ (IsCall /\ last.op = "UnmarshalJSON" /\ last.in = BytesArg(NullToken)) =>
          /\ ~last.err
          /\ ~LastValid
          /\ LastSet
          /\ LastIsZero
          /\ LastMarshalJSON.out = BytesArg(NullToken)

\* What Value must return right after a successful Scan of last.in.
C8_AfterScan ==
    (IsCall /\ last.op = "Scan" /\ ~last.err) =>
        /\ ~LastValue.err
        /\ last.in.shape = "nil" => LastValue.out = NilArg
        /\ last.in.shape # "nil" => LastValue.out = last.in

\* C8: Value after Scan(nil) returns nil; Value after a successful Scan of a
\* non-nil x returns x's payload, not nil; Value never returns an error and
\* changes neither the wrapper nor NullBytes.
C8_ScanBindSymmetry ==
    /\ [](C8_AfterScan)
    /\ [][last'.op = "Value" =>
            (~last'.err /\ j' = j /\ t' = t /\ NullBytes' = NullBytes)]_vars

\* C8 witness: an invalid wrapper has just scanned a non-nil payload, and Value
\* returns that payload.
C8_Witness ==
    /\ IsCall /\ last.op = "Scan" /\ ~last.err /\ ~last.preValid
    /\ last.in.shape \in {"bytes", "time"}
    /\ LastValue.out = last.in

\* C9: UnmarshalText of empty or nil input and Scan of nil succeed, leave Valid
\* false and leave the stored value at the kind's zero value.
C9_NullInputResetsValue ==
    (/\ IsCall
     /\ \/ last.op = "UnmarshalText" /\ last.in \in {NilArg, BytesArg(<<>>)}
        \/ last.op = "Scan" /\ last.in = NilArg)
        => (~last.err /\ ~LastValid /\ LastValueZero)

\* C10: Randomize with shouldBeNull leaves Valid false and the value zero;
\* Randomize without it leaves Valid true.
C10_RandomizeHonoursNull ==
    (IsCall /\ last.op = "Randomize") =>
        IF last.in.flag THEN ~LastValid /\ LastValueZero ELSE LastValid

====
